---- MODULE Spec2Model ----
(* A model of the go-todo HTTP service (src/main.go): four handlers over a   *)
(* single MongoDB collection, and the listener / interrupt lifecycle of      *)
(* main.  Strings that the code inspects character by character (the path    *)
(* id) are sequences of one-character strings.                               *)
EXTENDS Integers, Sequences, FiniteSets, TLC

(***************************************************************************)
(* Bounds                                                                  *)
(***************************************************************************)
MaxIds == 2
MaxClock == 1
MaxConns == 2
MaxRequests == 3

(***************************************************************************)
(* Program constants                                                       *)
(***************************************************************************)
GracePeriod == 5
StatusOK == 200
StatusCreated == 201
StatusProcessing == 102
StatusBadRequest == 400

\* a bson.ObjectId is 12 bytes, two hex characters each
ObjectIdHexLen == 12 * 2
\* the value of the first identifier bson.NewObjectId hands out
FirstObjectId == 10

(***************************************************************************)
(* Strings, hex, identifiers                                               *)
(***************************************************************************)
LowerHex == <<"0","1","2","3","4","5","6","7","8","9","a","b","c","d","e","f">>
UpperHex == <<"0","1","2","3","4","5","6","7","8","9","A","B","C","D","E","F">>
WhiteSpace == {" ", "\t", "\n", "\r"}

\* the value of each hex character, of either case (encoding/hex)
HexValue ==
  [c \in {LowerHex[i] : i \in 1..16} \cup {UpperHex[i] : i \in 1..16} |->
     IF \E i \in 1..16 : LowerHex[i] = c
       THEN (CHOOSE i \in 1..16 : LowerHex[i] = c) - 1
       ELSE (CHOOSE i \in 1..16 : UpperHex[i] = c) - 1]

\* value of one hex character, -1 when it is not one
HexVal(c) == IF c \in DOMAIN HexValue THEN HexValue[c] ELSE -1

RECURSIVE HexDigits(_, _)
\* the k low hex digits of n, most significant first
HexDigits(n, k) ==
  IF k = 0 THEN <<>>
  ELSE Append(HexDigits(n \div 16, k - 1), LowerHex[(n % 16) + 1])

\* ObjectId.Hex(): 24 lower-case hex characters
Hex(id) == HexDigits(id, ObjectIdHexLen)

RECURSIVE TrimLeft(_)
TrimLeft(s) ==
  IF s # <<>> /\ Head(s) \in WhiteSpace THEN TrimLeft(Tail(s)) ELSE s

RECURSIVE TrimRight(_)
TrimRight(s) ==
  IF s # <<>> /\ s[Len(s)] \in WhiteSpace
    THEN TrimRight(SubSeq(s, 1, Len(s) - 1)) ELSE s

\* strings.TrimSpace
TrimSpace(s) == TrimRight(TrimLeft(s))

IsObjectIdHex_LengthOnly(s) == Len(s) = ObjectIdHexLen

\* bson.IsObjectIdHex: 24 characters that all decode as hex
IsObjectIdHex(s) ==
  /\ Len(s) = ObjectIdHexLen
  /\ \A i \in 1..Len(s) : HexVal(s[i]) >= 0

RECURSIVE HexNumber(_, _)
\* the number the first n characters of s denote
HexNumber(s, n) ==
  IF n = 0 THEN 0
  ELSE 16 * HexNumber(s, n - 1) + (IF HexVal(s[n]) >= 0 THEN HexVal(s[n]) ELSE 0)

\* bson.ObjectIdHex: the identifier a hex string denotes
ObjectIdHex(s) == HexNumber(s, Len(s))

\* time.Time.Format("2006-01-02 15:04:05"): the sub-second part is dropped
Format(t) == t.sec

(***************************************************************************)
(* Requests and responses                                                  *)
(***************************************************************************)
Titles == {"", "a", "b"}

\* what json.NewDecoder(r.Body).Decode(&t) leaves: an error, or the fields
Bodies ==
  [malformed : {FALSE}, title : Titles, completed : BOOLEAN] \cup
  [malformed : {TRUE}, title : {""}, completed : {FALSE}]

NoBody == [malformed |-> FALSE, title |-> "", completed |-> FALSE]

\* the {id} path parameter of PUT and DELETE
PathIds ==
  { Hex(i) : i \in FirstObjectId..(FirstObjectId + MaxIds) } \cup
  { <<" ">> \o SubSeq(Hex(FirstObjectId), 1, ObjectIdHexLen - 1) \o <<"A", "\t">>,
    SubSeq(Hex(FirstObjectId), 1, ObjectIdHexLen - 1) \o <<"g">>,
    <<"x", "y", "z">> }

\* the inputs of the runs that follow the process through shutdown
LifeBodies == {[malformed |-> FALSE, title |-> "a", completed |-> TRUE]}
LifePathIds == {Hex(FirstObjectId)}

NoData == [kind |-> "absent", items |-> <<>>]

\* one call of rnd.JSON(w, status, ...)
Resp(status, message, error, data) ==
  [status |-> status, message |-> message, error |-> error, data |-> data]

\* todoModel -> todo, as in the loop of getAllTodo
ToWire(t) ==
  [id |-> Hex(t.ID), title |-> t.Title, completed |-> t.Completed,
   createdAt |-> Format(t.CreatedAt)]

\* todoList := []todo{} : an empty, non-nil slice
EmptyTodoList == [kind |-> "list", items |-> <<>>]

\* append(todoList, x): the result is never nil
AppendTodo(l, x) == [kind |-> "list", items |-> Append(l.items, x)]

RECURSIVE TodoList(_)
TodoList(todos) ==
  IF todos = <<>> THEN EmptyTodoList
  ELSE AppendTodo(TodoList(SubSeq(todos, 1, Len(todos) - 1)),
                  ToWire(todos[Len(todos)]))

(***************************************************************************)
(* The collection: mgo operations on db.C("todos") in safe mode.           *)
(* up = FALSE is a connectivity or server failure of the call.             *)
(***************************************************************************)
Matching(c, id) == { i \in 1..Len(c) : c[i].ID = id }

Without(c, i) ==
  IF i > Len(c) THEN c
  ELSE SubSeq(c, 1, i - 1) \o SubSeq(c, i + 1, Len(c))

\* Find(bson.M{}).All(&todos)
FindAll(c, up) ==
  IF ~up THEN [err |-> "store error", todos |-> <<>>]
  ELSE [err |-> "nil", todos |-> c]

Insert_Dropped(c, doc, up) ==
  IF ~up THEN [err |-> "store error", coll |-> c]
  ELSE [err |-> "nil", coll |-> c]

\* Insert(doc): _id carries a unique index
Insert(c, doc, up) ==
  IF ~up THEN [err |-> "store error", coll |-> c]
  ELSE IF Matching(c, doc.ID) # {} THEN [err |-> "duplicate key", coll |-> c]
  ELSE [err |-> "nil", coll |-> Append(c, doc)]

RemoveId_Silent(c, id, up) ==
  IF ~up THEN [err |-> "store error", coll |-> c]
  ELSE IF Matching(c, id) = {} THEN [err |-> "nil", coll |-> c]
  ELSE [err |-> "nil", coll |-> Without(c, CHOOSE i \in Matching(c, id) : TRUE)]

\* RemoveId(id): mgo.ErrNotFound when no document matched
RemoveId(c, id, up) ==
  IF ~up THEN [err |-> "store error", coll |-> c]
  ELSE IF Matching(c, id) = {} THEN [err |-> "not found", coll |-> c]
  ELSE [err |-> "nil", coll |-> Without(c, CHOOSE i \in Matching(c, id) : TRUE)]

\* the zero time.Time
ZeroTime == [sec |-> 0, nsec |-> 0]

Update_Replace(c, id, title, completed, up) ==
  IF ~up THEN [err |-> "store error", coll |-> c]
  ELSE IF Matching(c, id) = {} THEN [err |-> "not found", coll |-> c]
  ELSE LET i == CHOOSE j \in Matching(c, id) : TRUE IN
       [err |-> "nil",
        coll |-> [c EXCEPT ![i] = [ID |-> id, Title |-> title,
                                   Completed |-> completed,
                                   CreatedAt |-> ZeroTime]]]

Update_Upsert(c, id, title, completed, up) ==
  IF ~up THEN [err |-> "store error", coll |-> c]
  ELSE IF Matching(c, id) = {}
    THEN [err |-> "nil",
          coll |-> Append(c, [ID |-> id, Title |-> title,
                              Completed |-> completed, CreatedAt |-> ZeroTime])]
  ELSE LET i == CHOOSE j \in Matching(c, id) : TRUE IN
       [err |-> "nil",
        coll |-> [c EXCEPT ![i].Title = title, ![i].Completed = completed]]

\* Update({_id: id}, {$set: {title, completed}}): mgo.ErrNotFound when no
\* document matched; $set touches the two named fields only
Update(c, id, title, completed, up) ==
  IF ~up THEN [err |-> "store error", coll |-> c]
  ELSE IF Matching(c, id) = {} THEN [err |-> "not found", coll |-> c]
  ELSE LET i == CHOOSE j \in Matching(c, id) : TRUE IN
       [err |-> "nil",
        coll |-> [c EXCEPT ![i].Title = title, ![i].Completed = completed]]

(***************************************************************************)
(* The handlers, as functions of the request and the collection.  Each     *)
(* yields the responses written, the store calls issued and the            *)
(* collection afterwards.                                                  *)
(***************************************************************************)
Outcome(resp, ops, c) == [resp |-> resp, ops |-> ops, coll |-> c]

TitleRequired_Never(t) == FALSE

\* if t.Title == ""
TitleRequired(t) == t.title = ""

getAllTodoResult(c, up) ==
  LET r == FindAll(c, up) IN
  IF r.err # "nil"
    THEN Outcome(<<Resp(StatusBadRequest, "Failed to get todos", r.err, NoData)>>,
                 <<"Find">>, c)
    ELSE Outcome(<<Resp(StatusOK, "", "", TodoList(r.todos))>>, <<"Find">>, c)

createTodoResult_Unchecked(c, body, up, id, t) ==
  IF body.malformed
    THEN Outcome(<<Resp(StatusProcessing, "", "decode error", NoData)>>, <<>>, c)
  ELSE
    LET todo == [ID |-> id, Title |-> body.title, Completed |-> FALSE,
                 CreatedAt |-> t]
        r == Insert(c, todo, up)
    IN IF r.err # "nil"
         THEN Outcome(<<Resp(StatusBadRequest, "Failed to create todo", r.err,
                             NoData)>>, <<"Insert">>, r.coll)
         ELSE Outcome(<<Resp(StatusCreated, "Todo created successfully", "",
                             [kind |-> "record", items |-> <<todo>>])>>,
                      <<"Insert">>, r.coll)

\* id and t are the values of bson.NewObjectId() and time.Now()
createTodoResult(c, body, up, id, t) ==
  IF body.malformed
    THEN Outcome(<<Resp(StatusProcessing, "", "decode error", NoData)>>, <<>>, c)
  ELSE IF TitleRequired(body)
    THEN Outcome(<<Resp(StatusBadRequest, "Title is required", "", NoData)>>,
                 <<>>, c)
  ELSE
    LET todo == [ID |-> id, Title |-> body.title, Completed |-> FALSE,
                 CreatedAt |-> t]
        r == Insert(c, todo, up)
    IN IF r.err # "nil"
         THEN Outcome(<<Resp(StatusBadRequest, "Failed to create todo", r.err,
                             NoData)>>, <<"Insert">>, r.coll)
         ELSE Outcome(<<Resp(StatusCreated, "Todo created successfully", "",
                             [kind |-> "record", items |-> <<todo>>])>>,
                      <<"Insert">>, r.coll)

deleteTodoResult(c, pathId, up) ==
  LET id == TrimSpace(pathId) IN
  IF ~IsObjectIdHex(id)
    THEN Outcome(<<Resp(StatusBadRequest, "Invalid id", "", NoData)>>, <<>>, c)
  ELSE
    LET r == RemoveId(c, ObjectIdHex(id), up) IN
    IF r.err # "nil"
      THEN Outcome(<<Resp(StatusBadRequest, "Failed to delete todo", r.err,
                          NoData)>>, <<"RemoveId">>, r.coll)
      ELSE Outcome(<<Resp(StatusOK, "Todo deleted successfully", "", NoData)>>,
                   <<"RemoveId">>, r.coll)

updateTodoResult_BodyFirst(c, pathId, body, up) ==
  LET id == TrimSpace(pathId) IN
  IF body.malformed
    THEN Outcome(<<Resp(StatusProcessing, "", "decode error", NoData)>>, <<>>, c)
  ELSE IF TitleRequired(body)
    THEN Outcome(<<Resp(StatusBadRequest, "Title is required", "", NoData)>>,
                 <<>>, c)
  ELSE IF ~IsObjectIdHex(id)
    THEN Outcome(<<Resp(StatusBadRequest, "Invalid id", "", NoData)>>, <<>>, c)
  ELSE
    LET r == Update(c, ObjectIdHex(id), body.title, body.completed, up) IN
    IF r.err # "nil"
      THEN Outcome(<<Resp(StatusBadRequest, "Failed to update todo", r.err,
                          NoData)>>, <<"Update">>, r.coll)
      ELSE Outcome(<<>>, <<"Update">>, r.coll)

\* on success the handler returns without writing a response
updateTodoResult(c, pathId, body, up) ==
  LET id == TrimSpace(pathId) IN
  IF ~IsObjectIdHex(id)
    THEN Outcome(<<Resp(StatusBadRequest, "Invalid id", "", NoData)>>, <<>>, c)
  ELSE IF body.malformed
    THEN Outcome(<<Resp(StatusProcessing, "", "decode error", NoData)>>, <<>>, c)
  ELSE IF TitleRequired(body)
    THEN Outcome(<<Resp(StatusBadRequest, "Title is required", "", NoData)>>,
                 <<>>, c)
  ELSE
    LET r == Update(c, ObjectIdHex(id), body.title, body.completed, up) IN
    IF r.err # "nil"
      THEN Outcome(<<Resp(StatusBadRequest, "Failed to update todo", r.err,
                          NoData)>>, <<"Update">>, r.coll)
      ELSE Outcome(<<>>, <<"Update">>, r.coll)

(***************************************************************************)
(* State                                                                   *)
(***************************************************************************)
VARIABLES
  coll,             \* the documents of db.C("todos"), in insertion order
  objectIdCounter,  \* the next value of bson.NewObjectId()
  now,              \* the wall clock, in seconds
  inflight,         \* the number of requests whose handler has not returned
  accepted,         \* the number of requests read so far
  mainPc,           \* the main goroutine
  listenerPc,       \* the goroutine around server.ListenAndServe()
  exit,             \* "running", or how the process ended
  deadline,         \* the deadline of the context given to Shutdown
  created,          \* history: the identifier and CreatedAt of every insert
  last              \* history: the latest handler call and its outcome

vars == <<coll, objectIdCounter, now, inflight, accepted, mainPc, listenerPc,
          exit, deadline, created, last>>

lifecycle == <<mainPc, listenerPc, exit, deadline>>

\* the sub-second part of a reading of time.Now()
Nsecs == {500}

NoCall ==
  [op |-> "none", pathId |-> <<>>, body |-> NoBody,
   resp |-> <<>>, ops |-> <<>>, before |-> <<>>]

Call(op, pathId, body, out, before) ==
  [op |-> op, pathId |-> pathId, body |-> body,
   resp |-> out.resp, ops |-> out.ops, before |-> before]

Init ==
  /\ coll = <<>>
  /\ objectIdCounter = FirstObjectId
  /\ now = 0
  /\ inflight = 0
  /\ accepted = 0
  /\ mainPc = "start"
  /\ listenerPc = "notStarted"
  /\ exit = "running"
  /\ deadline = 0
  /\ created = <<>>
  /\ last = NoCall

\* server.Shutdown has been called
inShutdown == mainPc \in {"shutdown", "returned"}

(***************************************************************************)
(* Lifecycle: main and the listener goroutine                              *)
(***************************************************************************)
\* main up to the receive on stopChannel: the goroutine is launched
MainStart ==
  /\ exit = "running"
  /\ mainPc = "start"
  /\ mainPc' = "waitSignal"
  /\ listenerPc' = "starting"
  /\ UNCHANGED <<coll, objectIdCounter, now, inflight, accepted, exit,
                 deadline, created, last>>

\* ListenAndServe binds the port; a bind error goes to log.Fatal
Listen ==
  /\ exit = "running"
  /\ listenerPc = "starting"
  /\ ~inShutdown
  /\ \E bound \in BOOLEAN :
       IF bound
         THEN listenerPc' = "serving" /\ exit' = exit
         ELSE listenerPc' = "fatal" /\ exit' = "fatal"
  /\ UNCHANGED <<coll, objectIdCounter, now, inflight, accepted, mainPc,
                 deadline, created, last>>

\* os.Interrupt is delivered to stopChannel, where main is receiving
Interrupt ==
  /\ exit = "running"
  /\ mainPc = "waitSignal"
  /\ mainPc' = "signalled"
  /\ UNCHANGED <<coll, objectIdCounter, now, inflight, accepted, listenerPc,
                 exit, deadline, created, last>>

\* context.WithTimeout(5s) and the call of server.Shutdown(ctx)
Shutdown ==
  /\ exit = "running"
  /\ mainPc = "signalled"
  /\ mainPc' = "shutdown"
  /\ deadline' = now + GracePeriod
  /\ UNCHANGED <<coll, objectIdCounter, now, inflight, accepted, listenerPc,
                 exit, created, last>>

\* once Shutdown is called ListenAndServe returns http.ErrServerClosed,
\* which is not nil: log.Fatal(err) ends the process
ListenerReturn ==
  /\ exit = "running"
  /\ listenerPc \in {"starting", "serving"}
  /\ inShutdown
  /\ listenerPc' = "fatal"
  /\ exit' = "fatal"
  /\ UNCHANGED <<coll, objectIdCounter, now, inflight, accepted, mainPc,
                 deadline, created, last>>

\* Shutdown returns when every connection is idle or the context expired;
\* main then returns
ShutdownReturn ==
  /\ exit = "running"
  /\ mainPc = "shutdown"
  /\ inflight = 0 \/ now >= deadline
  /\ mainPc' = "returned"
  /\ exit' = "returned"
  /\ UNCHANGED <<coll, objectIdCounter, now, inflight, accepted, listenerPc,
                 deadline, created, last>>

Tick ==
  /\ exit = "running"
  /\ now < MaxClock \/ (mainPc = "shutdown" /\ now < deadline)
  /\ now' = now + 1
  /\ UNCHANGED <<coll, objectIdCounter, inflight, accepted, lifecycle,
                 created, last>>

(***************************************************************************)
(* Requests: one goroutine per request                                     *)
(***************************************************************************)
\* the server reads a request and starts its handler
Accept ==
  /\ exit = "running"
  /\ listenerPc = "serving"
  /\ ~inShutdown
  /\ inflight < MaxConns
  /\ accepted < MaxRequests
  /\ inflight' = inflight + 1
  /\ accepted' = accepted + 1
  /\ UNCHANGED <<coll, objectIdCounter, now, lifecycle, created, last>>

getAllTodo ==
  /\ exit = "running"
  /\ inflight > 0
  /\ \E up \in BOOLEAN :
       \E out \in {getAllTodoResult(coll, up)} :
       /\ coll' = out.coll
       /\ last' = Call("list", <<>>, NoBody, out, coll)
  /\ inflight' = inflight - 1
  /\ UNCHANGED <<objectIdCounter, now, accepted, lifecycle, created>>

createTodo(bodies) ==
  /\ exit = "running"
  /\ inflight > 0
  /\ \E body \in bodies, up \in BOOLEAN, nsec \in Nsecs :
       \E out \in {createTodoResult(coll, body, up, objectIdCounter,
                                     [sec |-> now, nsec |-> nsec])} :
       LET t == [sec |-> now, nsec |-> nsec]
           fresh == out.ops # <<>>
       IN /\ fresh => objectIdCounter < FirstObjectId + MaxIds
          /\ coll' = out.coll
          /\ objectIdCounter' = IF fresh THEN objectIdCounter + 1
                                ELSE objectIdCounter
          /\ created' = IF Len(out.coll) > Len(coll)
                          THEN Append(created, [id |-> objectIdCounter, at |-> t])
                          ELSE created
          /\ last' = Call("create", <<>>, body, out, coll)
  /\ inflight' = inflight - 1
  /\ UNCHANGED <<now, accepted, lifecycle>>

deleteTodo(pathIds) ==
  /\ exit = "running"
  /\ inflight > 0
  /\ \E pathId \in pathIds, up \in BOOLEAN :
       \E out \in {deleteTodoResult(coll, pathId, up)} :
       /\ coll' = out.coll
       /\ last' = Call("delete", pathId, NoBody, out, coll)
  /\ inflight' = inflight - 1
  /\ UNCHANGED <<objectIdCounter, now, accepted, lifecycle, created>>

updateTodo(pathIds, bodies) ==
  /\ exit = "running"
  /\ inflight > 0
  /\ \E pathId \in pathIds, body \in bodies, up \in BOOLEAN :
       \E out \in {updateTodoResult(coll, pathId, body, up)} :
       /\ coll' = out.coll
       /\ last' = Call("update", pathId, body, out, coll)
  /\ inflight' = inflight - 1
  /\ UNCHANGED <<objectIdCounter, now, accepted, lifecycle, created>>

\* the service while no interrupt arrives
Next ==
  \/ MainStart
  \/ Listen
  \/ Tick
  \/ Accept
  \/ getAllTodo
  \/ createTodo(Bodies)
  \/ deleteTodo(PathIds)
  \/ updateTodo(PathIds, Bodies)

Spec == Init /\ [][Next]_vars

\* the service through interrupt and shutdown
NextLife ==
  \/ MainStart
  \/ Listen
  \/ Interrupt
  \/ Shutdown
  \/ ListenerReturn
  \/ ShutdownReturn
  \/ Tick
  \/ Accept
  \/ getAllTodo
  \/ createTodo(LifeBodies)
  \/ deleteTodo(LifePathIds)
  \/ updateTodo(LifePathIds, LifeBodies)

SpecLife == Init /\ [][NextLife]_vars

TypeOK ==
  /\ Len(coll) <= MaxIds
  /\ objectIdCounter \in FirstObjectId..(FirstObjectId + MaxIds)
  /\ inflight \in 0..MaxConns
  /\ accepted \in 0..MaxRequests
  /\ exit \in {"running", "fatal", "returned"}

(***************************************************************************)
(* Properties.  They are stated over the latest handler call: last holds   *)
(* its request, the responses it wrote and the collection it started from, *)
(* and coll is the collection it left.                                     *)
(***************************************************************************)
LastId == TrimSpace(last.pathId)
\* a well-formed store key: 24 hexadecimal characters of either case
HexChars ==
  {"0","1","2","3","4","5","6","7","8","9",
   "a","b","c","d","e","f","A","B","C","D","E","F"}
LastIdOk == Len(LastId) = 24 /\ \A i \in 1..Len(LastId) : LastId[i] \in HexChars
LastKey == ObjectIdHex(LastId)
LastMatches == Matching(last.before, LastKey) # {}
StoreDown == last.resp # <<>> /\ last.resp[1].error = "store error"
Ids(c) == { c[i].ID : i \in 1..Len(c) }

InvalidId == Resp(StatusBadRequest, "Invalid id", "", NoData)
TitleIsRequired == Resp(StatusBadRequest, "Title is required", "", NoData)

\* C1: a create request whose decoded title is empty is answered 400
\* "Title is required" and leaves the collection as it was, issuing no insert,
\* whatever the other body fields are.
C1_EmptyTitleCreate ==
  (last.op = "create" /\ ~last.body.malformed /\ last.body.title = "") =>
    /\ last.resp = <<TitleIsRequired>>
    /\ last.ops = <<>>
    /\ coll = last.before

C1_Witness ==
  /\ last.op = "create" /\ ~last.body.malformed /\ last.body.title = ""
  /\ last.body.completed
  /\ last.before # <<>>

\* C2 as stated: a delete of a well-formed id that matches no record is
\* answered like a delete of an existing one (200 "Todo deleted
\* successfully") and leaves the collection unchanged.
C2_DeleteMissingSucceeds ==
  (last.op = "delete" /\ LastIdOk /\ ~LastMatches /\ ~StoreDown) =>
    /\ last.resp = <<Resp(StatusOK, "Todo deleted successfully", "", NoData)>>
    /\ coll = last.before

\* C2 amended: a delete of a well-formed id that matches no record is
\* answered 400 "Failed to delete todo" with the store's not-found error, and
\* leaves the collection unchanged; only a delete that removes a record is
\* answered 200 "Todo deleted successfully".
C2_DeleteMissingNotFound ==
  /\ (last.op = "delete" /\ LastIdOk /\ ~LastMatches /\ ~StoreDown) =>
       /\ last.resp = <<Resp(StatusBadRequest, "Failed to delete todo",
                             "not found", NoData)>>
       /\ coll = last.before
  /\ (last.op = "delete" /\ last.resp # <<>> /\ last.resp[1].status = StatusOK) =>
       /\ LastIdOk /\ LastMatches
       /\ Len(coll) = Len(last.before) - 1

C2_Witness ==
  /\ last.op = "delete" /\ LastIdOk /\ ~LastMatches /\ ~StoreDown
  /\ last.before # <<>>

\* C3: a delete or update whose trimmed path id is not a well-formed store
\* key is answered 400 "Invalid id" with no store call and an unchanged
\* collection, for update whatever the body is.
C3_InvalidId ==
  (last.op \in {"delete", "update"} /\ ~LastIdOk) =>
    /\ last.resp = <<InvalidId>>
    /\ last.ops = <<>>
    /\ coll = last.before

C3_Witness ==
  /\ last.op = "update" /\ ~LastIdOk
  /\ Len(LastId) = ObjectIdHexLen
  /\ last.body.malformed
  /\ last.before # <<>>

UpdateSucceeded ==
  last.op = "update" /\ last.ops # <<>> /\ last.resp = <<>>

\* C4: a successful update sets title and completed of the matching record
\* to the request's values and keeps its identifier and createdAt; every other
\* record is unchanged and none is added or removed.  Hence every record in
\* the collection, and every record list reports, carries the identifier and
\* createdAt it was given at creation.
C4_UpdateFrame ==
  /\ UpdateSucceeded =>
       /\ LastIdOk /\ LastMatches
       /\ Len(coll) = Len(last.before)
       /\ \A i \in 1..Len(coll) :
            IF last.before[i].ID = LastKey
              THEN coll[i] = [ID |-> last.before[i].ID,
                              Title |-> last.body.title,
                              Completed |-> last.body.completed,
                              CreatedAt |-> last.before[i].CreatedAt]
              ELSE coll[i] = last.before[i]
  /\ \A i \in 1..Len(coll) :
       \E j \in 1..Len(created) :
         created[j].id = coll[i].ID /\ created[j].at = coll[i].CreatedAt
  /\ (last.op = "list" /\ last.resp[1].status = StatusOK) =>
       \A k \in 1..Len(last.resp[1].data.items) :
         \E j \in 1..Len(created) :
           /\ Hex(created[j].id) = last.resp[1].data.items[k].id
           /\ created[j].at.sec = last.resp[1].data.items[k].createdAt

C4_Witness ==
  /\ UpdateSucceeded
  /\ Len(coll) = 2
  /\ \E i \in 1..Len(coll) :
       /\ coll[i].ID = LastKey
       /\ coll[i].Title # last.before[i].Title
       /\ coll[i].Completed # last.before[i].Completed

\* C5: every persisted record has a non-empty title and no two persisted
\* records share an identifier.
C5_TitlesAndIds ==
  /\ \A i \in 1..Len(coll) : coll[i].Title # ""
  /\ \A i, j \in 1..Len(coll) : coll[i].ID = coll[j].ID => i = j

C5_Witness ==
  /\ Len(coll) = 2
  /\ last.op = "create" /\ last.ops # <<>>
  /\ inflight > 0

\* C6: list answers 200 with exactly the records of the collection, an empty
\* non-null sequence when there is none; a successful create answers 201 with
\* a record that has completed = false and adds exactly that record; a
\* successful delete removes exactly the record of its id; nothing else adds
\* or removes a record.
C6_ListIsCollection ==
  /\ (last.op = "list" /\ ~StoreDown) =>
       /\ Len(last.resp) = 1
       /\ last.resp[1].status = StatusOK
       /\ last.resp[1].data.kind = "list"
       /\ last.resp[1].data.items =
            [i \in 1..Len(coll) |->
               [id |-> Hex(coll[i].ID), title |-> coll[i].Title,
                completed |-> coll[i].Completed,
                createdAt |-> coll[i].CreatedAt.sec]]
  /\ (last.op = "create" /\ last.resp[1].status = StatusCreated) =>
       /\ last.resp[1].data.kind = "record"
       /\ last.resp[1].data.items[1].Completed = FALSE
       /\ last.resp[1].data.items[1].Title = last.body.title
       /\ coll = Append(last.before, last.resp[1].data.items[1])
  /\ (last.op = "delete" /\ last.resp[1].status = StatusOK) =>
       /\ Ids(coll) = Ids(last.before) \ {LastKey}
       /\ LastKey \in Ids(last.before)
  /\ (~(last.op = "create" /\ last.resp # <<>> /\ last.resp[1].status = StatusCreated)
      /\ ~(last.op = "delete" /\ last.resp # <<>> /\ last.resp[1].status = StatusOK)) =>
       Ids(coll) = Ids(last.before)

C6_Witness ==
  /\ last.op = "list" /\ ~StoreDown
  /\ Len(last.resp[1].data.items) = 1
  /\ last.resp[1].data.items[1].id = Hex(FirstObjectId + 1)

\* C7: once the interrupt has been received the process ends only when no
\* request is in flight or the 5-second grace period has elapsed.
C7_GracefulDrain ==
  (exit # "running" /\ mainPc \in {"shutdown", "returned"}) =>
    (inflight = 0 \/ now >= deadline)

ValidationFails ==
  \/ last.op \in {"update", "delete"} /\ ~LastIdOk
  \/ last.op \in {"create", "update"} /\ last.body.malformed
  \/ last.op \in {"create", "update"} /\ last.body.title = ""

\* C8: every validation failure (bad id, empty title, malformed body) is
\* answered with a 400-class status and a message, and causes no store call.
C8_ValidationIs400 ==
  ValidationFails =>
    /\ Len(last.resp) = 1
    /\ last.resp[1].status \in 400..499
    /\ last.resp[1].message # ""
    /\ last.ops = <<>>

UpdateMissing ==
  /\ last.op = "update" /\ LastIdOk /\ ~LastMatches
  /\ ~last.body.malformed /\ last.body.title # ""
  /\ ~StoreDown

\* C9 as stated: an update of a well-formed id that matches no record, with a
\* non-empty title, takes the success path (no "Failed to update todo"
\* response) and leaves the collection unchanged.
C9_UpdateMissingNoOp ==
  UpdateMissing =>
    /\ \A k \in 1..Len(last.resp) : last.resp[k].message # "Failed to update todo"
    /\ coll = last.before

\* C9 amended: an update of a well-formed id that matches no record, with a
\* non-empty title, is answered 400 "Failed to update todo" with the store's
\* not-found error; the collection is unchanged.
C9_UpdateMissingNotFound ==
  UpdateMissing =>
    /\ last.resp = <<Resp(StatusBadRequest, "Failed to update todo",
                          "not found", NoData)>>
    /\ coll = last.before

C9_Witness ==
  /\ UpdateMissing
  /\ last.before # <<>>

DecodeError == Resp(StatusProcessing, "", "decode error", NoData)

\* C10: a handler checks the id, then the body, then calls the store, and
\* stops at the first failure: at most one store call and one response per
\* request, a store call only when every check passed, and the response of
\* the earliest failing check.
C10_CheckOrder ==
  /\ Len(last.resp) <= 1
  /\ Len(last.ops) <= 1
  /\ (last.ops # <<>> /\ last.op # "list") => ~ValidationFails
  /\ (last.op # "none" /\ last.op # "list" /\ ~ValidationFails) => last.ops # <<>>
  /\ last.op \in {"update", "delete"} =>
       IF ~LastIdOk THEN last.resp = <<InvalidId>>
       ELSE last.op = "update" =>
         IF last.body.malformed THEN last.resp = <<DecodeError>>
         ELSE last.body.title = "" => last.resp = <<TitleIsRequired>>
  /\ last.op = "create" =>
       IF last.body.malformed THEN last.resp = <<DecodeError>>
       ELSE last.body.title = "" => last.resp = <<TitleIsRequired>>

C10_Witness ==
  /\ last.op = "update" /\ ~LastIdOk
  /\ ~last.body.malformed /\ last.body.title = ""
  /\ last.resp = <<InvalidId>>

====
